---- MODULE Spec2Model ----
(***************************************************************************)
(* Model of the document preprocessing pipeline of src/main2.py:           *)
(* clean_text (twelve rewrite stages), load_file, preprocess_documents     *)
(* (RecursiveCharacterTextSplitter), save_to_markdown and main.            *)
(*                                                                         *)
(* A text is a sequence of characters; a character is a one-character      *)
(* string, or a name for a character outside ASCII (SURR, RSQUO, ...).     *)
(***************************************************************************)
EXTENDS Integers, Sequences, FiniteSets, TLC

VARIABLES
    x,          \* clean_text: the text it was first called with
    y,          \* clean_text: the text as it is now
    passes,     \* clean_text: how many times it has been applied to x
    prev,       \* clean_text: the text before the last application
    docs,       \* preprocess_documents: page_content of each document
    cfg,        \* the splitter's chunk_size and chunk_overlap
    chunks,     \* preprocess_documents: the chunks split_documents returned
    stage,      \* preprocess_documents: how far it has come
    pc,         \* main: where the run is
    run,        \* the number of the run (one process per run)
    path,       \* main: file_path as typed, whether it exists and its suffix
    loader,     \* load_file: the loader constructed, "none" before
    loaded,     \* load_file: whether loader.load() has been called
    outcome,    \* how the run ended, "running" before
    clock,      \* datetime.now(), in whole seconds
    dirExists,  \* whether the directory outputs exists
    fs,         \* the reports in outputs: second of the file name -> items
    target,     \* save_to_markdown: the second in output_path, 0 before
    opened      \* every open(output_path, "w") so far: run and second

cleanVars == <<x, y, passes, prev>>

splitVars == <<docs, cfg, chunks, stage>>

runVars ==
    <<pc, run, path, loader, loaded, outcome, clock, dirExists, fs, target,
      opened>>

vars ==
    <<x, y, passes, prev, docs, cfg, chunks, stage, pc, run, path, loader,
      loaded, outcome, clock, dirExists, fs, target, opened>>

\* ------------------------------------------------------------------ bounds

\* Inputs of clean_text are concatenations of at most MaxFrags fragments.
MaxFrags == 3

\* A page given to preprocess_documents holds at most MaxPage characters.
MaxPage == 5

\* The script is run at most MaxRuns times, within MaxClock seconds.
MaxRuns == 2

MaxClock == 2

\* ------------------------------------------------------------- characters

SURR == "SURR"          \* a lone surrogate: not encodable as UTF-8
RSQUO == "RSQUO"        \* U+2019
LSQUO == "LSQUO"        \* U+2018
LDQUO == "LDQUO"        \* U+201C
RDQUO == "RDQUO"        \* U+201D
ENDASH == "ENDASH"      \* U+2013
EMDASH == "EMDASH"      \* U+2014
BULLET == "BULLET"      \* U+2022
WBULLET == "WBULLET"    \* U+25E6
SBULLET == "SBULLET"    \* U+25AA
TBULLET == "TBULLET"    \* U+2023

LowerSeq ==
    <<"a", "b", "c", "d", "e", "f", "g", "h", "i", "j", "k", "l", "m",
      "n", "o", "p", "q", "r", "s", "t", "u", "v", "w", "x", "y", "z">>

UpperSeq ==
    <<"A", "B", "C", "D", "E", "F", "G", "H", "I", "J", "K", "L", "M",
      "N", "O", "P", "Q", "R", "S", "T", "U", "V", "W", "X", "Y", "Z">>

Lowers == {LowerSeq[k] : k \in 1..Len(LowerSeq)}

Uppers == {UpperSeq[k] : k \in 1..Len(UpperSeq)}

Digits == {"0", "1", "2", "3", "4", "5", "6", "7", "8", "9"}

\* \s of the re module, over the characters of the model
Whitespace == {" ", "\n", "\t"}

IsSpace(c) == c \in Whitespace

IsNonSpace(c) == c \notin Whitespace

IsDigit(c) == c \in Digits

\* the character class of stage 9: [a-zA-Z0-9.,;:?!()\-\n /%]
AllowList ==
    Lowers \cup Uppers \cup Digits
        \cup {".", ",", ";", ":", "?", "!", "(", ")", "-", "\n", " ", "/", "%"}

\* the character class of stage 10: [!?.,]
RepeatPunct == {"!", "?", ".", ","}

\* the lower-case form of a character: str.lower() of load_file, and
\* re.IGNORECASE on the letters of "Page" and "of"
LowerOf ==
    [c \in Uppers |-> LowerSeq[CHOOSE k \in 1..Len(UpperSeq) : UpperSeq[k] = c]]

Lower(c) == IF c \in Uppers THEN LowerOf[c] ELSE c

\* --------------------------------------------------------- text primitives

\* text[i..] starts with lit
HasAt(text, i, lit) ==
    /\ i + Len(lit) - 1 <= Len(text)
    /\ \A k \in 1..Len(lit) : text[i + k - 1] = lit[k]

\* the same, letters compared without case
HasAtIgnoreCase(text, i, lit) ==
    /\ i + Len(lit) - 1 <= Len(text)
    /\ \A k \in 1..Len(lit) : Lower(text[i + k - 1]) = lit[k]

RECURSIVE IndexFrom(_, _, _)
\* the least j >= i with text[j] = c, or 0
IndexFrom(text, c, i) ==
    IF i > Len(text) THEN 0
    ELSE IF text[i] = c THEN i
    ELSE IndexFrom(text, c, i + 1)

RECURSIVE RunEnd(_, _, _)
\* the last index of the longest run of characters of class starting at i
\* (i - 1 when text[i] is not in class): a greedy class* from i
RunEnd(text, i, class) ==
    IF i <= Len(text) /\ text[i] \in class
    THEN RunEnd(text, i + 1, class)
    ELSE i - 1

NonSpaceOf(text) == {text[k] : k \in 1..Len(text)} \ Whitespace

\* ------------------------------------------------------------- clean_text

\* stage 1: text.encode("utf-8", "ignore").decode()
EncodeIgnore(text) == SelectSeq(text, LAMBDA c : c # SURR)

RECURSIVE StripTagsFrom(_, _)
StripTagsFrom(text, i) ==
    IF i > Len(text) THEN <<>>
    ELSE LET j == IF text[i] = "<" THEN IndexFrom(text, ">", i + 1) ELSE 0
         IN  IF j > i + 1
             THEN <<" ">> \o StripTagsFrom(text, j + 1)
             ELSE <<text[i]>> \o StripTagsFrom(text, i + 1)

\* stage 2: re.sub(r"<[^>]+>", " ", text)
StripTags(text) == StripTagsFrom(text, 1)

\* the length of the literal that starts a match of http\S+|www\S+|@\S+ at i,
\* or 0: the literal must be followed by at least one non-space character
UrlLiteral(text, i) ==
    LET follows(n) == i + n <= Len(text) /\ IsNonSpace(text[i + n])
    IN  IF HasAt(text, i, <<"h", "t", "t", "p">>) /\ follows(4) THEN 4
        ELSE IF HasAt(text, i, <<"w", "w", "w">>) /\ follows(3) THEN 3
        ELSE IF HasAt(text, i, <<"@">>) /\ follows(1) THEN 1
        ELSE 0

RECURSIVE StripUrlsFrom(_, _)
StripUrlsFrom(text, i) ==
    IF i > Len(text) THEN <<>>
    ELSE LET n == UrlLiteral(text, i)
         IN  IF n > 0
             THEN <<" ">> \o StripUrlsFrom(text,
                      RunEnd(text, i + n, NonSpaceOf(text)) + 1)
             ELSE <<text[i]>> \o StripUrlsFrom(text, i + 1)

\* stage 3: re.sub(r"http\S+|www\S+|@\S+", " ", text)
StripUrls(text) == StripUrlsFrom(text, 1)

\* stage 4: the six str.replace calls
PlainPunctChar(c) ==
    CASE c = RSQUO -> "'"
      [] c = LSQUO -> "'"
      [] c = LDQUO -> "\""
      [] c = RDQUO -> "\""
      [] c = ENDASH -> "-"
      [] c = EMDASH -> "-"
      [] OTHER -> c

PlainPunct(text) == [k \in 1..Len(text) |-> PlainPunctChar(text[k])]

\* stage 5, first substitution: bullet glyphs become hyphens
BulletsToHyphen(text) ==
    [k \in 1..Len(text) |->
        IF text[k] \in {BULLET, WBULLET, SBULLET, TBULLET} THEN "-" ELSE text[k]]

\* the last index of a match of \n\s*\d+[\).] at i, or 0
ListMarkerEnd(text, i) ==
    IF text[i] # "\n" THEN 0
    ELSE LET s == RunEnd(text, i + 1, Whitespace)
             d == RunEnd(text, s + 1, Digits)
         IN  IF d > s /\ d + 1 <= Len(text) /\ text[d + 1] \in {")", "."}
             THEN d + 1
             ELSE 0

RECURSIVE ListMarkersFrom(_, _)
ListMarkersFrom(text, i) ==
    IF i > Len(text) THEN <<>>
    ELSE LET e == ListMarkerEnd(text, i)
         IN  IF e > 0
             THEN <<"\n", "-">> \o ListMarkersFrom(text, e + 1)
             ELSE <<text[i]>> \o ListMarkersFrom(text, i + 1)

\* stage 5, second substitution: re.sub(r"(\n\s*\d+[\).])", "\n-", text)
ListMarkers(text) == ListMarkersFrom(text, 1)

\* the last index of a match of Page\s*\d+(\s*of\s*\d+)? at i, or 0
PageMarkerEnd(text, i) ==
    IF ~HasAtIgnoreCase(text, i, <<"p", "a", "g", "e">>) THEN 0
    ELSE LET s == RunEnd(text, i + 4, Whitespace)
             d == RunEnd(text, s + 1, Digits)
             s2 == RunEnd(text, d + 1, Whitespace)
             s3 == RunEnd(text, s2 + 3, Whitespace)
             d2 == RunEnd(text, s3 + 1, Digits)
         IN  IF d <= s THEN 0
             ELSE IF HasAtIgnoreCase(text, s2 + 1, <<"o", "f">>) /\ d2 > s3
             THEN d2
             ELSE d

RECURSIVE PageMarkersFrom(_, _)
PageMarkersFrom(text, i) ==
    IF i > Len(text) THEN <<>>
    ELSE LET e == PageMarkerEnd(text, i)
         IN  IF e > 0
             THEN <<" ">> \o PageMarkersFrom(text, e + 1)
             ELSE <<text[i]>> \o PageMarkersFrom(text, i + 1)

\* stage 6: re.sub(r"Page\s*\d+(\s*of\s*\d+)?", " ", text, flags=re.IGNORECASE)
PageMarkers(text) == PageMarkersFrom(text, 1)

\* stage 7: re.sub(r"(?<!\n)\n(?!\n)", " ", text)
UnwrapLines(text) ==
    [k \in 1..Len(text) |->
        IF /\ text[k] = "\n"
           /\ (k = 1 \/ text[k - 1] # "\n")
           /\ (k = Len(text) \/ text[k + 1] # "\n")
        THEN " "
        ELSE text[k]]

RECURSIVE CollapseSpaceFrom(_, _)
CollapseSpaceFrom(text, i) ==
    IF i > Len(text) THEN <<>>
    ELSE IF IsSpace(text[i])
    THEN <<" ">> \o CollapseSpaceFrom(text, RunEnd(text, i, Whitespace) + 1)
    ELSE <<text[i]>> \o CollapseSpaceFrom(text, i + 1)

\* stage 8: re.sub(r"\s+", " ", text)
CollapseSpace(text) == CollapseSpaceFrom(text, 1)

\* a slip in the character class: the straight quotes of stage 4 kept
DropUnlistedKeepQuotes(text) ==
    SelectSeq(text, LAMBDA c : c \in AllowList \cup {"'", "\""})

\* stage 9: re.sub(r"[^a-zA-Z0-9.,;:?!()\-\n /%]", "", text)
DropUnlisted(text) == SelectSeq(text, LAMBDA c : c \in AllowList)

RECURSIVE CollapsePunctFrom(_, _)
CollapsePunctFrom(text, i) ==
    IF i > Len(text) THEN <<>>
    ELSE IF text[i] \in RepeatPunct
    THEN <<text[i]>> \o CollapsePunctFrom(text, RunEnd(text, i, {text[i]}) + 1)
    ELSE <<text[i]>> \o CollapsePunctFrom(text, i + 1)

\* stage 10: re.sub(r"([!?.,])\1+", r"\1", text)
CollapsePunct(text) == CollapsePunctFrom(text, 1)

RECURSIVE LastNewline(_, _, _)
\* the greatest j in lo..hi with text[j] = "\n", or 0
LastNewline(text, lo, hi) ==
    IF hi < lo THEN 0
    ELSE IF text[hi] = "\n" THEN hi
    ELSE LastNewline(text, lo, hi - 1)

\* the last index of a match of \n\s*\n+ at i, or 0
BlankLinesEnd(text, i) ==
    IF text[i] # "\n" THEN 0
    ELSE LastNewline(text, i + 1, RunEnd(text, i + 1, Whitespace))

RECURSIVE BlankLinesFrom(_, _)
BlankLinesFrom(text, i) ==
    IF i > Len(text) THEN <<>>
    ELSE LET e == BlankLinesEnd(text, i)
         IN  IF e > 0
             THEN <<"\n", "\n">> \o BlankLinesFrom(text, e + 1)
             ELSE <<text[i]>> \o BlankLinesFrom(text, i + 1)

\* stage 11: re.sub(r"\n\s*\n+", "\n\n", text)
BlankLines(text) == BlankLinesFrom(text, 1)

RECURSIVE LStrip(_)
LStrip(text) ==
    IF text # <<>> /\ IsSpace(Head(text)) THEN LStrip(Tail(text)) ELSE text

RECURSIVE RStrip(_)
RStrip(text) ==
    IF text # <<>> /\ IsSpace(text[Len(text)])
    THEN RStrip(SubSeq(text, 1, Len(text) - 1))
    ELSE text

\* stage 12 (and str.strip wherever the pipeline calls it)
Strip(text) == RStrip(LStrip(text))

\* stages 7 and 8 in order
Stage7To8(text) == CollapseSpace(UnwrapLines(text))

\* stages 1 to 6 in order
Stage1To6(text) ==
    PageMarkers(ListMarkers(BulletsToHyphen(PlainPunct(
        StripUrls(StripTags(EncodeIgnore(text)))))))

\* a slip in the order: repeated punctuation collapsed before the
\* characters outside the allow list are dropped
Stage9To12PunctFirst(text) ==
    Strip(BlankLines(DropUnlisted(CollapsePunct(text))))

\* stages 9 to 12 in order
Stage9To12(text) == Strip(BlankLines(CollapsePunct(DropUnlisted(text))))

clean_text(text) == Stage9To12(Stage7To8(Stage1To6(text)))

\* plain words: letters only, and left as they are by clean_text
IsPlainWord(text) ==
    /\ text # <<>>
    /\ \A k \in 1..Len(text) : text[k] \in Lowers \cup Uppers
    /\ clean_text(text) = text

\* ------------------------------------- RecursiveCharacterTextSplitter

\* separators=["\n\n", "\n", ".", " "]
Separators == <<<<"\n", "\n">>, <<"\n">>, <<".">>, <<" ">>>>

\* the characters the separators are made of
SeparatorChars == {"\n", ".", " "}

\* re.search(re.escape(sep), text)
Contains(text, sep) == \E i \in 1..Len(text) : HasAt(text, i, sep)

RECURSIVE Concat(_)
\* "".join(pieces)
Concat(pieces) ==
    IF pieces = <<>> THEN <<>> ELSE Head(pieces) \o Concat(Tail(pieces))

RECURSIVE SplitKeepFrom(_, _, _, _)
\* the pieces of text from start on, scanning from i: a piece ends where the
\* next occurrence of sep begins, and that occurrence starts the next piece
SplitKeepFrom(text, sep, start, i) ==
    IF i > Len(text)
    THEN IF start <= Len(text)
         THEN <<SubSeq(text, start, Len(text))>>
         ELSE <<>>
    ELSE IF HasAt(text, i, sep)
    THEN (IF i > start THEN <<SubSeq(text, start, i - 1)>> ELSE <<>>)
             \o SplitKeepFrom(text, sep, i, i + Len(sep))
    ELSE SplitKeepFrom(text, sep, start, i + 1)

\* _split_text_with_regex(text, re.escape(sep), keep_separator=True):
\* re.split on the captured separator, each separator glued to the front of
\* the piece that follows it, empty pieces dropped
SplitKeep(text, sep) == SplitKeepFrom(text, sep, 1, 1)

\* the separator _split_text settles on: the first of seps that occurs in
\* text, with the separators after it left for the recursion; the last of
\* seps, with none left, when no separator occurs
PickSeparator(text, seps) ==
    LET found == {i \in 1..Len(seps) : Contains(text, seps[i])}
    IN  IF found = {}
        THEN [sep |-> seps[Len(seps)], rest |-> <<>>]
        ELSE LET i == CHOOSE m \in found : \A n \in found : m <= n
             IN  [sep |-> seps[i], rest |-> SubSeq(seps, i + 1, Len(seps))]

\* total of _merge_splits: the length of the pieces in the window (the merge
\* separator is "" under keep_separator=True)
Total(cur) == Len(Concat(cur))

\* a slip in the loop: an if where the while stands, one piece popped
PopFrontOnce(cur, len, c) ==
    IF \/ Total(cur) > c.overlap
       \/ (Total(cur) + len > c.size /\ Total(cur) > 0)
    THEN Tail(cur)
    ELSE cur

RECURSIVE PopFront(_, _, _)
\* the while loop of _merge_splits: pieces leave the front of the window
\* until what is left is no longer than chunk_overlap and the next piece,
\* of length len, fits
PopFront(cur, len, c) ==
    IF \/ Total(cur) > c.overlap
       \/ (Total(cur) + len > c.size /\ Total(cur) > 0)
    THEN PopFront(Tail(cur), len, c)
    ELSE cur

\* _join_docs: the window joined and stripped, nothing when that is empty.
\* raw is the joined window before stripping, carry the pieces the window
\* kept from the window before it, prevRaw that window joined.
JoinDocs(cur, carry, prevRaw) ==
    LET raw == Concat(cur)
    IN  IF Strip(raw) = <<>> THEN <<>>
        ELSE <<[content |-> Strip(raw), raw |-> raw, carry |-> carry,
                prevRaw |-> prevRaw, merged |-> TRUE]>>

RECURSIVE MergeFromOneOver(_, _, _, _, _, _)
\* a slip in the comparison: the window is flushed one character too late
MergeFromOneOver(splits, k, cur, carry, prevRaw, c) ==
    IF k > Len(splits) THEN JoinDocs(cur, carry, prevRaw)
    ELSE LET d == splits[k]
         IN  IF Total(cur) + Len(d) > c.size + 1 /\ cur # <<>>
             THEN LET kept == PopFront(cur, Len(d), c)
                  IN  JoinDocs(cur, carry, prevRaw)
                          \o MergeFromOneOver(splits, k + 1, Append(kept, d),
                                              Concat(kept), Concat(cur), c)
             ELSE MergeFromOneOver(splits, k + 1, Append(cur, d), carry,
                                   prevRaw, c)

RECURSIVE MergeFrom(_, _, _, _, _, _)
\* the for loop of _merge_splits from piece k on: cur is the window
\* (current_doc); a piece that would take the window over chunk_size has
\* the window joined into a chunk and trimmed from the front first
MergeFrom(splits, k, cur, carry, prevRaw, c) ==
    IF k > Len(splits) THEN JoinDocs(cur, carry, prevRaw)
    ELSE LET d == splits[k]
         IN  IF Total(cur) + Len(d) > c.size /\ cur # <<>>
             THEN LET kept == PopFront(cur, Len(d), c)
                  IN  JoinDocs(cur, carry, prevRaw)
                          \o MergeFrom(splits, k + 1, Append(kept, d),
                                       Concat(kept), Concat(cur), c)
             ELSE MergeFrom(splits, k + 1, Append(cur, d), carry, prevRaw, c)

\* _merge_splits(splits, ""): the pieces packed greedily into chunks
merge_splits(splits, c) == MergeFrom(splits, 1, <<>>, <<>>, <<>>, c)

\* final_chunks.append(s): a piece no separator is left for, emitted as it is
Whole(s) ==
    [content |-> s, raw |-> s, carry |-> <<>>, prevRaw |-> <<>>,
     merged |-> FALSE]

RECURSIVE split_text(_, _, _)
RECURSIVE SplitLoop(_, _, _, _, _)

\* the for loop of _split_text over the pieces: pieces shorter than
\* chunk_size gather in good; a longer one flushes good through
\* _merge_splits and is split again with the separators left, or emitted
\* whole when none is left
SplitLoop(splits, k, good, rest, c) ==
    LET flush == IF good # <<>> THEN merge_splits(good, c) ELSE <<>>
    IN  IF k > Len(splits) THEN flush
        ELSE IF Len(splits[k]) < c.size
        THEN SplitLoop(splits, k + 1, Append(good, splits[k]), rest, c)
        ELSE flush
                 \o (IF rest = <<>>
                     THEN <<Whole(splits[k])>>
                     ELSE split_text(splits[k], rest, c))
                 \o SplitLoop(splits, k + 1, <<>>, rest, c)

\* RecursiveCharacterTextSplitter._split_text(text, separators)
split_text(text, seps, c) ==
    LET pick == PickSeparator(text, seps)
    IN  SplitLoop(SplitKeep(text, pick.sep), 1, <<>>, pick.rest, c)

RECURSIVE split_documents(_, _, _)
\* split_documents: every document split on its own, in order; a chunk
\* carries the index of the document it comes from
split_documents(pages, n, c) ==
    IF n > Len(pages) THEN <<>>
    ELSE LET cs == split_text(pages[n], Separators, c)
         IN  [k \in 1..Len(cs) |-> [doc |-> n] @@ cs[k]]
                 \o split_documents(pages, n + 1, c)

\* TextSplitter.__init__: "Got a larger chunk overlap than chunk size"
ConfigAccepted(c) == ~(c.overlap > c.size)

\* ---------------------------------------------------- inputs of clean_text

\* the pieces raw texts are made of: single characters of every class the
\* stages tell apart, and the literals the patterns of stages 3 and 6 name
Fragments ==
    {<<c>> : c \in {"a", "1", " ", "\n", "\t", ".", "!", ")", "-", "#", "<",
                    ">", "@", SURR, RSQUO, EMDASH, BULLET}}
        \cup {<<"\n", "\n">>, <<"h", "t", "t", "p">>, <<"w", "w", "w">>,
              <<"P", "a", "g", "e">>, <<"o", "f">>}

RECURSIVE Texts(_)
\* the concatenations of at most n fragments
Texts(n) ==
    IF n = 0 THEN {<<>>}
    ELSE LET shorter == Texts(n - 1)
         IN  shorter \cup {t \o f : t \in shorter, f \in Fragments}

\* ------------------------------------------------ clean_text, applied twice

\* the variables of clean_text's own check, when it is not running
IdleClean ==
    /\ x = <<>>
    /\ y = <<>>
    /\ prev = <<>>
    /\ passes = 0

\* the variables of preprocess_documents, when it is not running
IdleSplit ==
    /\ docs = <<>>
    /\ cfg = [size |-> 0, overlap |-> 0]
    /\ chunks = <<>>
    /\ stage = "idle"

\* the variables of main, when no run is under way
IdleRun ==
    /\ pc = "idle"
    /\ run = 0
    /\ path = [exists |-> FALSE, suffix |-> <<>>]
    /\ loader = "none"
    /\ loaded = FALSE
    /\ outcome = "running"
    /\ clock = 1
    /\ dirExists = FALSE
    /\ fs = <<>>
    /\ target = 0
    /\ opened = <<>>

InitClean ==
    /\ x \in Texts(MaxFrags)
    /\ y = x
    /\ prev = x
    /\ passes = 0
    /\ IdleSplit
    /\ IdleRun

\* one call of clean_text on the text at hand (preprocess_documents line 91;
\* a second call is the re-normalisation of an already cleaned text)
Clean ==
    /\ passes < 2
    /\ prev' = y
    /\ y' = clean_text(y)
    /\ passes' = passes + 1
    /\ UNCHANGED <<x, splitVars, runVars>>

NextClean == Clean

SpecClean == InitClean /\ [][NextClean]_vars

\* ------------------------------------------------------ claims: clean_text

\* C1: clean_text is idempotent: cleaning an already cleaned text changes
\* nothing, clean_text(clean_text(x)) = clean_text(x).
CleanIdempotent == passes = 2 => y = prev

\* C8: every character of clean_text(x) is in the allow-listed set (ASCII
\* letters, digits, . , ; : ? ! ( ) - / %, space, newline).
AllowListClosure ==
    passes >= 1 => \A k \in 1..Len(y) : y[k] \in AllowList

\* a raw text holding characters outside the allow list, some of them
\* produced by stage 4 from typographic punctuation, cleaned to a text
\* that is not empty
AllowListWitness ==
    /\ passes = 1
    /\ \E k \in 1..Len(x) : x[k] \in {"#", "<"}
    /\ \E k \in 1..Len(x) : x[k] = RSQUO
    /\ y # <<>>

\* C9: clean_text(x) holds no two consecutive identical characters out of
\* ! ? . , -- also when the two only meet once stage 9 has deleted what
\* stood between them.
NoDoublePunct ==
    passes >= 1 =>
        \A k \in 1..(Len(y) - 1) : ~(y[k] \in RepeatPunct /\ y[k + 1] = y[k])

\* two equal marks with only a deleted character between them, cleaned to
\* the one mark
NoDoublePunctWitness ==
    /\ passes = 1
    /\ x = <<"!", "#", "!">>
    /\ y = <<"!">>

\* C10: two plain words separated by a paragraph break (two or more
\* newlines) come out separated by exactly one blank line, and two plain
\* words separated by a single newline come out separated by one space.
ParagraphsKept ==
    passes = 1 =>
        \A i, j \in 1..Len(x) :
            ( /\ i <= j
              /\ \A k \in i..j : x[k] = "\n"
              /\ IsPlainWord(SubSeq(x, 1, i - 1))
              /\ IsPlainWord(SubSeq(x, j + 1, Len(x))) )
            => y = SubSeq(x, 1, i - 1)
                     \o (IF i < j THEN <<"\n", "\n">> ELSE <<" ">>)
                     \o SubSeq(x, j + 1, Len(x))

\* ------------------------------------------------- preprocess_documents

\* the characters pages are made of: two letters, the separators' own, and
\* one that clean_text deletes
SplitAlphabet == {"a", "b", ".", " ", "\n", "#"}

RECURSIVE Pages(_)
\* the texts of at most n characters over SplitAlphabet
Pages(n) ==
    IF n = 0 THEN {<<>>}
    ELSE LET shorter == Pages(n - 1)
         IN  shorter \cup {Append(t, ch) : t \in shorter, ch \in SplitAlphabet}

\* chunk_size and chunk_overlap, scaled down from the 1000 and 150 of
\* preprocess_documents to sizes the pages of the model exceed
Configs == {[size |-> 3, overlap |-> 1], [size |-> 4, overlap |-> 2]}

\* the configuration and the text of the spec's scenario B
ScenarioBConfig == [size |-> 10, overlap |-> 3]

ScenarioBText ==
    <<"a", "b", "c", "d", "e", "f", "g", "h", "i", "j", "k", "l", "m", "n", "o">>

\* the pages a second document may hold
SecondPages == {<<"b">>, <<"b", "a", " ", "a", "b">>}

\* load_file has returned: one document, or two
InitSplit ==
    /\ \/ /\ cfg \in Configs
          /\ \/ \E p \in Pages(MaxPage) : docs = <<p>>
             \/ \E p \in Pages(MaxPage), q \in SecondPages :
                    docs = <<p, q>>
       \/ /\ cfg = ScenarioBConfig
          /\ docs = <<ScenarioBText>>
    /\ chunks = <<>>
    /\ stage = "loaded"
    /\ IdleClean
    /\ IdleRun

\* preprocess_documents, lines 90-91: every page cleaned in place
CleanDocs ==
    /\ stage = "loaded"
    /\ docs' = [n \in 1..Len(docs) |-> clean_text(docs[n])]
    /\ stage' = "cleaned"
    /\ UNCHANGED <<cfg, chunks, cleanVars, runVars>>

\* preprocess_documents, lines 93-98: the splitter built and run
SplitDocs ==
    /\ stage = "cleaned"
    /\ ConfigAccepted(cfg)
    /\ chunks' = split_documents(docs, 1, cfg)
    /\ stage' = "split"
    /\ UNCHANGED <<docs, cfg, cleanVars, runVars>>

NextSplit == CleanDocs \/ SplitDocs

SpecSplit == InitSplit /\ [][NextSplit]_vars


\* ------------------------------------------------- claims: the splitter

IsPrefix(s, t) == Len(s) <= Len(t) /\ SubSeq(t, 1, Len(s)) = s

IsSuffix(s, t) ==
    Len(s) <= Len(t) /\ SubSeq(t, Len(t) - Len(s) + 1, Len(t)) = s

\* the last n characters of t, all of t when it is shorter
LastChars(t, n) ==
    IF Len(t) <= n THEN t ELSE SubSeq(t, Len(t) - n + 1, Len(t))

Contents == [k \in 1..Len(chunks) |-> chunks[k].content]

LowerText(t) == [k \in 1..Len(t) |-> Lower(t[k])]

\* a slip in the dispatch: the else branch reads the file as plain text
LoaderForElseText(ext) ==
    IF ext = <<".", "p", "d", "f">> THEN "PyPDFLoader"
    ELSE IF ext \in {<<".", "d", "o", "c", "x">>, <<".", "d", "o", "c">>}
    THEN "Docx2txtLoader"
    ELSE IF ext \in {<<".", "h", "t", "m", "l">>, <<".", "h", "t", "m">>}
    THEN "UnstructuredHTMLLoader"
    ELSE "TextLoader"

\* the if/elif chain of load_file on the lowered suffix: the loader it
\* constructs, "none" where it raises ValueError("Unsupported file type")
LoaderFor(ext) ==
    IF ext = <<".", "p", "d", "f">> THEN "PyPDFLoader"
    ELSE IF ext \in {<<".", "d", "o", "c", "x">>, <<".", "d", "o", "c">>}
    THEN "Docx2txtLoader"
    ELSE IF ext \in {<<".", "h", "t", "m", "l">>, <<".", "h", "t", "m">>}
    THEN "UnstructuredHTMLLoader"
    ELSE IF ext = <<".", "t", "x", "t">> THEN "TextLoader"
    ELSE "none"

\* ------------------------------------------------------ save_to_markdown

\* the two f.write calls of the loop body for chunk n
Section(n, chunk) ==
    <<[kind |-> "heading", n |-> n, text |-> <<>>],
      [kind |-> "body", n |-> n, text |-> Strip(chunk.content)]>>

RECURSIVE ReportFrom(_, _)
ReportFrom(cs, n) ==
    IF n > Len(cs) THEN <<>> ELSE Section(n, cs[n]) \o ReportFrom(cs, n + 1)

\* what the with block writes for chunks: every section, numbered from 1
Report(cs) == ReportFrom(cs, 1)

\* ------------------------------------------------------------------ main

\* Path(file_path).suffix of the paths typed at the prompt
Suffixes ==
    {<<".", "p", "d", "f">>, <<".", "P", "D", "F">>,
     <<".", "d", "o", "c", "x">>, <<".", "d", "o", "c">>,
     <<".", "h", "t", "m", "l">>, <<".", "H", "t", "m">>,
     <<".", "t", "x", "t">>, <<".", "T", "x", "t">>,
     <<".", "x", "y", "z">>, <<".", "m", "d">>, <<>>}

Paths == [exists : BOOLEAN, suffix : Suffixes]

\* what loader.load() returns: the pages of the file
LoadedDocs ==
    {<<<<"a", " ", "#", " ", "b", "\n", "a", "b">>>>,
     <<<<"a", "b", ".", "a">>, <<"b", "!", "!">>>>}

\* chunk_size and chunk_overlap of a run: as in Configs, and with the
\* overlap equal to and greater than the size
RunConfigs ==
    {[size |-> 3, overlap |-> 1], [size |-> 3, overlap |-> 3],
     [size |-> 3, overlap |-> 4]}

Seconds == 1..MaxClock

InitRun ==
    /\ pc = "input"
    /\ run = 1
    /\ path = [exists |-> FALSE, suffix |-> <<>>]
    /\ loader = "none"
    /\ loaded = FALSE
    /\ outcome = "running"
    /\ clock = 1
    /\ dirExists \in BOOLEAN
    /\ fs = [s \in Seconds |-> [present |-> FALSE, items |-> <<>>]]
    /\ target = 0
    /\ opened = <<>>
    /\ cfg \in RunConfigs
    /\ docs = <<>>
    /\ chunks = <<>>
    /\ stage = "idle"
    /\ IdleClean

\* line 125: the path is read from the prompt
MainInput ==
    /\ pc = "input"
    /\ path' \in Paths
    /\ pc' = "exists"
    /\ UNCHANGED <<run, loader, loaded, outcome, clock, dirExists, fs,
                   target, opened, splitVars, cleanVars>>

\* lines 127-129: the path does not exist; a message, and main returns
MainNotFound ==
    /\ pc = "exists"
    /\ ~path.exists
    /\ outcome' = "not found"
    /\ pc' = "done"
    /\ UNCHANGED <<run, path, loader, loaded, clock, dirExists, fs, target,
                   opened, splitVars, cleanVars>>

\* line 131: the path exists; load_file is called
MainFound ==
    /\ pc = "exists"
    /\ path.exists
    /\ pc' = "load_file"
    /\ UNCHANGED <<run, path, loader, loaded, outcome, clock, dirExists, fs,
                   target, opened, splitVars, cleanVars>>

\* lines 66-77, the else branch: ValueError, which nothing catches
LoadFileUnsupported ==
    /\ pc = "load_file"
    /\ LoaderFor(LowerText(path.suffix)) = "none"
    /\ outcome' = "ValueError: unsupported file type"
    /\ pc' = "done"
    /\ UNCHANGED <<run, path, loader, loaded, clock, dirExists, fs, target,
                   opened, splitVars, cleanVars>>

\* lines 66-75: the loader for the suffix is constructed
LoadFileBuild ==
    /\ pc = "load_file"
    /\ LoaderFor(LowerText(path.suffix)) # "none"
    /\ loader' = LoaderFor(LowerText(path.suffix))
    /\ pc' = "load"
    /\ UNCHANGED <<run, path, loaded, outcome, clock, dirExists, fs, target,
                   opened, splitVars, cleanVars>>

\* line 80: loader.load() returns the pages
LoaderLoad ==
    /\ pc = "load"
    /\ loaded' = TRUE
    /\ docs' \in LoadedDocs
    /\ stage' = "loaded"
    /\ pc' = "preprocess"
    /\ UNCHANGED <<run, path, loader, outcome, clock, dirExists, fs, target,
                   opened, cfg, chunks, cleanVars>>

\* line 80: loader.load() raises (a directory, a file it cannot parse)
LoaderFails ==
    /\ pc = "load"
    /\ loaded' = TRUE
    /\ outcome' = "loader error"
    /\ pc' = "done"
    /\ UNCHANGED <<run, path, loader, clock, dirExists, fs, target, opened,
                   splitVars, cleanVars>>

\* lines 93-97: the splitter's constructor raises ValueError
SplitterRejects ==
    /\ pc = "preprocess"
    /\ stage = "cleaned"
    /\ ~ConfigAccepted(cfg)
    /\ outcome' = "ValueError: chunk overlap larger than chunk size"
    /\ pc' = "done"
    /\ UNCHANGED <<run, path, loader, loaded, clock, dirExists, fs, target,
                   opened, splitVars, cleanVars>>

\* line 108: os.makedirs(output_dir, exist_ok=True)
SaveMakedirs ==
    /\ pc = "preprocess"
    /\ stage = "split"
    /\ dirExists' = TRUE
    /\ pc' = "timestamp"
    /\ UNCHANGED <<run, path, loader, loaded, outcome, clock, fs, target,
                   opened, splitVars, cleanVars>>

\* line 108: the directory cannot be created
SaveMakedirsFails ==
    /\ pc = "preprocess"
    /\ stage = "split"
    /\ ~dirExists
    /\ outcome' = "OSError: makedirs"
    /\ pc' = "done"
    /\ UNCHANGED <<run, path, loader, loaded, clock, dirExists, fs, target,
                   opened, splitVars, cleanVars>>

\* lines 110-111: the file name is made of the second it is now
SaveTimestamp ==
    /\ pc = "timestamp"
    /\ target' = clock
    /\ pc' = "open"
    /\ UNCHANGED <<run, path, loader, loaded, outcome, clock, dirExists, fs,
                   opened, splitVars, cleanVars>>

\* line 113: open(output_path, "w") creates the file, or empties it
SaveOpen ==
    /\ pc = "open"
    /\ fs' = [fs EXCEPT ![target] = [present |-> TRUE, items |-> <<>>]]
    /\ opened' = Append(opened, [run |-> run, second |-> target])
    /\ pc' = "write"
    /\ UNCHANGED <<run, path, loader, loaded, outcome, clock, dirExists,
                   target, splitVars, cleanVars>>

\* line 113: open raises
SaveOpenFails ==
    /\ pc = "open"
    /\ outcome' = "OSError: open"
    /\ pc' = "done"
    /\ UNCHANGED <<run, path, loader, loaded, clock, dirExists, fs, target,
                   opened, splitVars, cleanVars>>

\* lines 115-116: the next f.write of the loop
SaveWrite ==
    /\ pc = "write"
    /\ Len(fs[target].items) < Len(Report(chunks))
    /\ fs' = [fs EXCEPT ![target].items =
                 Append(@, Report(chunks)[Len(@) + 1])]
    /\ UNCHANGED <<pc, run, path, loader, loaded, outcome, clock, dirExists,
                   target, opened, splitVars, cleanVars>>

\* lines 115-116: the next f.write raises (the disk is full, the device
\* fails); the with block closes the file and the error ends the run
SaveWriteFails ==
    /\ pc = "write"
    /\ Len(fs[target].items) < Len(Report(chunks))
    /\ outcome' = "OSError: write"
    /\ pc' = "done"
    /\ UNCHANGED <<run, path, loader, loaded, clock, dirExists, fs, target,
                   opened, splitVars, cleanVars>>

\* lines 113-118: the loop is over, the file is closed, the path printed
SaveClose ==
    /\ pc = "write"
    /\ Len(fs[target].items) = Len(Report(chunks))
    /\ outcome' = "saved"
    /\ pc' = "done"
    /\ UNCHANGED <<run, path, loader, loaded, clock, dirExists, fs, target,
                   opened, splitVars, cleanVars>>

\* a second passes on the clock datetime.now() reads
Tick ==
    /\ pc # "idle"
    /\ clock < MaxClock
    /\ clock' = clock + 1
    /\ UNCHANGED <<pc, run, path, loader, loaded, outcome, dirExists, fs,
                   target, opened, splitVars, cleanVars>>

\* line 137: the script is run again, on the same outputs directory
MainAgain ==
    /\ pc = "done"
    /\ run < MaxRuns
    /\ run' = run + 1
    /\ pc' = "input"
    /\ path' = [exists |-> FALSE, suffix |-> <<>>]
    /\ loader' = "none"
    /\ loaded' = FALSE
    /\ outcome' = "running"
    /\ target' = 0
    /\ docs' = <<>>
    /\ chunks' = <<>>
    /\ stage' = "idle"
    /\ UNCHANGED <<clock, dirExists, fs, opened, cfg, cleanVars>>

NextRun ==
    \/ MainInput
    \/ MainNotFound
    \/ MainFound
    \/ LoadFileUnsupported
    \/ LoadFileBuild
    \/ LoaderLoad
    \/ LoaderFails
    \/ CleanDocs
    \/ SplitDocs
    \/ SplitterRejects
    \/ SaveMakedirs
    \/ SaveMakedirsFails
    \/ SaveTimestamp
    \/ SaveOpen
    \/ SaveOpenFails
    \/ SaveWrite
    \/ SaveWriteFails
    \/ SaveClose
    \/ Tick
    \/ MainAgain

Spec == InitRun /\ [][NextRun]_vars

\* ----------------------------------------------------- claims: the run

\* whether this run has opened a report
ReportOfRun == \E k \in 1..Len(opened) : opened[k].run = run

SupportedAnyCase ==
    {<<".", "p", "d", "f">>, <<".", "P", "D", "F">>,
     <<".", "d", "o", "c", "x">>, <<".", "d", "o", "c">>,
     <<".", "h", "t", "m", "l">>, <<".", "H", "t", "m">>,
     <<".", "t", "x", "t">>, <<".", "T", "x", "t">>}

\* C5: a loader is constructed or invoked, and a report produced, only if
\* the path exists and its suffix is supported (case ignored); a missing
\* path ends the run with the not-found message and no exception; another
\* suffix ends it with the unsupported-type error before any loader is
\* constructed or invoked.
LoadOnlySupported ==
    /\ (loader # "none" \/ loaded \/ ReportOfRun) =>
           (path.exists /\ path.suffix \in SupportedAnyCase)
    /\ (pc = "done" /\ ~path.exists) => outcome = "not found"
    /\ (pc = "done" /\ path.exists /\ path.suffix \notin SupportedAnyCase) =>
           /\ outcome = "ValueError: unsupported file type"
           /\ loader = "none"
           /\ ~loaded

\* a report saved from a path whose suffix is in capitals, in a second run,
\* the first having opened none
LoadOnlySupportedWitness ==
    /\ pc = "done"
    /\ outcome = "saved"
    /\ path.suffix = <<".", "P", "D", "F">>
    /\ ReportOfRun
    /\ run = 2
    /\ opened[1].run = 2

\* C6: when save_to_markdown fails, the output file does not exist or
\* holds the sections of all chunks, never a proper prefix of them.
WriterAllOrNothing ==
    (pc = "done" /\ target # 0
        /\ outcome \in {"OSError: open", "OSError: write"}) =>
        \/ ~fs[target].present
        \/ fs[target].items = Report(chunks)

\* C7: no run opens for writing a path an earlier run has written.
NoOverwrite ==
    \A i, j \in 1..Len(opened) :
        i < j => opened[i].second # opened[j].second

====
